---- MODULE Spec2Model ----
(***************************************************************************)
(* Model of viewflow/flow.py: the flow-construction language.  Objects     *)
(* live in a heap that maps an object id to its instance dictionary, so    *)
(* that attribute lookup (instance dictionary first, then the class) and   *)
(* the exceptions it raises are part of the model.                         *)
(***************************************************************************)
EXTENDS Integers, Sequences, FiniteSets, TLC

VARIABLES
  heap,    \* object id -> instance dictionary (with the object's class as cls)
  calls,   \* object id -> the wiring calls made on it so far, in order
  last,    \* the most recent call: method, receiver, return value, what it yielded
  fuel     \* builder calls still allowed

vars == <<heap, calls, last, fuel>>

\* ---------------------------------------------------------------- bounds
MaxCalls == 3

\* ------------------------------------------------------- python values
None == 0
NoneStr == "None"
Ids == {1, 2}
ScenarioIds == {1, 2, 3, 4, 5}
Roles == {"manager", "clerk"}
\* A condition is absent (None), present but falsy (0, False, ''), or a callable.
Conds == {"None", "falsy", "callable"}
Truthy(cond) == cond \notin {"None", "falsy"}
NoneVal == [tag |-> "None", items |-> <<>>]
ListVal(items) == [tag |-> "list", items |-> items]

\* ------------------------------------------------------- class hierarchy
Base(cls) ==
  CASE cls = "_Node" -> "object"
    [] cls \in {"_Event", "_Task", "_Gate", "Start"} -> "_Node"
    [] cls \in {"End", "Timer", "Mailbox"} -> "_Event"
    [] cls \in {"View", "Job"} -> "_Task"
    [] cls \in {"If", "Switch", "Join", "Split", "First"} -> "_Gate"

RECURSIVE Mro(_)
Mro(cls) == IF cls = "object" THEN {"object"} ELSE {cls} \cup Mro(Base(cls))

NodeClasses ==
  {"Start", "End", "Timer", "Mailbox", "View", "Job", "If", "Switch", "Join", "Split", "First"}

\* super(T, self) raises TypeError unless self is an instance of T.
SuperOk(T, cls) == T \in Mro(cls)

\* The class each __init__ names in its super(...) call; End inherits _Node.__init__.
SuperArg(cls) == IF cls = "Switch" THEN "Split" ELSE cls

InitRaises(cls) == cls # "End" /\ ~SuperOk(SuperArg(cls), cls)

\* ------------------------------------------------------- constructors
Node_init(cls) == [cls |-> cls, _role |-> NoneStr, _incoming |-> NoneVal, name |-> NoneStr]

Start_init == Node_init("Start") @@ [_activate_next |-> <<>>]
End_init == Node_init("End")
Timer_init == Node_init("Timer") @@ [_activate_next |-> <<>>]
Mailbox_init == Node_init("Mailbox") @@ [_activate_next |-> <<>>, _on_receive |-> "on_receive"]
View_init == Node_init("View") @@ [_activate_next |-> <<>>, _view |-> "view"]
Job_init == Node_init("Job") @@ [_activate_next |-> <<>>, _job |-> "job"]
If_init == Node_init("If") @@ [_condition |-> "cond", _on_true |-> None, _on_false |-> None]
Switch_init == Node_init("Switch") @@ [_activate_next |-> <<>>]
Join_init == Node_init("Join") @@ [_wait_all |-> FALSE, _activate_next |-> <<>>]
Split_init == Node_init("Split") @@ [_activate_next |-> <<>>]
First_init == Node_init("First") @@ [_activate_list |-> <<>>]

New(cls) ==
  CASE cls = "Start" -> Start_init
    [] cls = "End" -> End_init
    [] cls = "Timer" -> Timer_init
    [] cls = "Mailbox" -> Mailbox_init
    [] cls = "View" -> View_init
    [] cls = "Job" -> Job_init
    [] cls = "If" -> If_init
    [] cls = "Switch" -> Switch_init
    [] cls = "Join" -> Join_init
    [] cls = "Split" -> Split_init
    [] cls = "First" -> First_init

Constructible == {cls \in NodeClasses : ~InitRaises(cls)}

\* ------------------------------------------------------- edges
\* Variant: the two ends exchanged.
Edge_reversed(src, dst, edge_class) ==
  [src |-> dst, dst |-> src, edge_class |-> edge_class, label |-> NoneStr]

Edge(src, dst, edge_class) ==
  [src |-> src, dst |-> dst, edge_class |-> edge_class, label |-> NoneStr]

Yielded(edges) == [edges |-> edges, exc |-> NoneStr]
Raised(exc) == [edges |-> <<>>, exc |-> exc]

HasAttr(d, attr) == attr \in DOMAIN d

NextEdges(o, d) ==
  IF HasAttr(d, "_activate_next")
  THEN Yielded([i \in 1..Len(d._activate_next) |-> Edge(o, d._activate_next[i], "next")])
  ELSE Raised("AttributeError")

Start_outgoing(o, d) == NextEdges(o, d)
End_outgoing(o, d) == Yielded(<<>>)
Timer_outgoing(o, d) == NextEdges(o, d)
Mailbox_outgoing(o, d) == NextEdges(o, d)
View_outgoing(o, d) == NextEdges(o, d)
Job_outgoing(o, d) == NextEdges(o, d)
Join_outgoing(o, d) == NextEdges(o, d)

\* Variant: the false branch is yielded first.
If_outgoing_false_first(o, d) ==
  Yielded(<<Edge(o, d._on_false, "cond_false"), Edge(o, d._on_true, "cond_true")>>)

If_outgoing(o, d) ==
  Yielded(<<Edge(o, d._on_true, "cond_true"), Edge(o, d._on_false, "cond_false")>>)

\* A list has no items(): the generator raises at its first step.
Switch_outgoing(o, d) == Raised("AttributeError")

Split_outgoing(o, d) ==
  Yielded([i \in 1..Len(d._activate_next) |->
             Edge(o, d._activate_next[i][1],
                  IF Truthy(d._activate_next[i][2]) THEN "cond_true" ELSE "default")])

\* _activate_next is never set on a First: the attribute lookup raises.
First_outgoing(o, d) ==
  IF HasAttr(d, "_activate_next")
  THEN Raised("AttributeError")   \* a list has no items()
  ELSE Raised("AttributeError")   \* no such attribute

Outgoing(o, d) ==
  CASE d.cls = "Start" -> Start_outgoing(o, d)
    [] d.cls = "End" -> End_outgoing(o, d)
    [] d.cls = "Timer" -> Timer_outgoing(o, d)
    [] d.cls = "Mailbox" -> Mailbox_outgoing(o, d)
    [] d.cls = "View" -> View_outgoing(o, d)
    [] d.cls = "Job" -> Job_outgoing(o, d)
    [] d.cls = "If" -> If_outgoing(o, d)
    [] d.cls = "Switch" -> Switch_outgoing(o, d)
    [] d.cls = "Join" -> Join_outgoing(o, d)
    [] d.cls = "Split" -> Split_outgoing(o, d)
    [] d.cls = "First" -> First_outgoing(o, d)

\* ------------------------------------------------------- state
Objs == DOMAIN heap
\* A call's record; repeat: it enumerates the node the call before it enumerated.
Result(op, o, value, out, repeat) ==
  [op |-> op, self |-> o, value |-> value, out |-> out, repeat |-> repeat]
NoCall == Result("none", None, None, Yielded(<<>>), FALSE)
Returned(op, o) == Result(op, o, o, Yielded(<<>>), FALSE)
Call(op, node, cond) == [op |-> op, node |-> node, cond |-> cond]

Init ==
  /\ heap \in {[o \in Ids |-> New(k[o])] : k \in [Ids -> Constructible]}
  /\ calls = [o \in Ids |-> <<>>]
  /\ last = NoCall
  /\ fuel = MaxCalls

\* ------------------------------------------------------- builder methods
\* Variant: the successor is inserted at the front of the list.
AppendNext_front(d, node) == [d EXCEPT !._activate_next = <<node>> \o @]
AppendNext(d, node) == [d EXCEPT !._activate_next = Append(@, node)]
AppendCond(d, node, cond) == [d EXCEPT !._activate_next = Append(@, <<node, cond>>)]
AppendList(d, node) == [d EXCEPT !._activate_list = Append(@, node)]
\* Variant: a branch already set is kept.
SetOnTrue_once(d, node) == [d EXCEPT !._on_true = IF @ = None THEN node ELSE @]
SetOnTrue(d, node) == [d EXCEPT !._on_true = node]
SetOnFalse(d, node) == [d EXCEPT !._on_false = node]
SetRole(d, role) == [d EXCEPT !._role = role]

\* Variant: the wiring is held by the class, shared by all its instances.
Wire_shared(cls, op, o, node, cond, d) ==
  /\ heap[o].cls = cls
  /\ fuel > 0
  /\ heap' = [p \in Objs |-> IF heap[p].cls = cls THEN d ELSE heap[p]]
  /\ calls' = [calls EXCEPT ![o] = Append(@, Call(op, node, cond))]
  /\ last' = Returned(op, o)
  /\ fuel' = fuel - 1

\* A wiring call op(node, cond) on o of class cls that leaves o's dictionary as d.
Wire(cls, op, o, node, cond, d) ==
  /\ heap[o].cls = cls
  /\ fuel > 0
  /\ heap' = [heap EXCEPT ![o] = d]
  /\ calls' = [calls EXCEPT ![o] = Append(@, Call(op, node, cond))]
  /\ last' = Returned(op, o)
  /\ fuel' = fuel - 1

Activate(o, node) == Wire("Start", "Activate", o, node, "None", AppendNext(heap[o], node))
Timer_Next(o, node) == Wire("Timer", "Next", o, node, "None", AppendNext(heap[o], node))
Mailbox_Next(o, node) == Wire("Mailbox", "Next", o, node, "None", AppendNext(heap[o], node))
View_Next(o, node) == Wire("View", "Next", o, node, "None", AppendNext(heap[o], node))
Job_Next(o, node) == Wire("Job", "Next", o, node, "None", AppendNext(heap[o], node))
Join_Next(o, node) == Wire("Join", "Next", o, node, "None", AppendNext(heap[o], node))
OnTrue(o, node) == Wire("If", "OnTrue", o, node, "None", SetOnTrue(heap[o], node))
OnFalse(o, node) == Wire("If", "OnFalse", o, node, "None", SetOnFalse(heap[o], node))
Split_Next(o, node, cond) ==
  Wire("Split", "Next", o, node, cond, AppendCond(heap[o], node, cond))
Always(o, node) == Wire("Split", "Always", o, node, "None", AppendCond(heap[o], node, "None"))
Of(o, node) == Wire("First", "Of", o, node, "None", AppendList(heap[o], node))
\* Case and Default need a Switch object, and Switch.__init__ always raises.
Case(o, node, cond) == Wire("Switch", "Case", o, node, cond, AppendCond(heap[o], node, cond))
Default(o, node) == Wire("Switch", "Default", o, node, "None", AppendCond(heap[o], node, "None"))

Role(o, role) ==
  /\ fuel > 0
  /\ heap' = [heap EXCEPT ![o] = SetRole(@, role)]
  /\ last' = Returned("Role", o)
  /\ fuel' = fuel - 1
  /\ UNCHANGED calls

\* ------------------------------------------------------- construction
\* cls(): the object is bound only if __init__ returns.
Construct(cls) ==
  IF InitRaises(cls)
  THEN /\ last' = Result(cls, None, None, Raised("TypeError"), FALSE)
       /\ UNCHANGED <<heap, calls, fuel>>
  ELSE /\ fuel > 0
       /\ heap' = heap @@ (Cardinality(Objs) + 1 :> New(cls))
       /\ calls' = calls @@ (Cardinality(Objs) + 1 :> <<>>)
       /\ last' = Result(cls, None, Cardinality(Objs) + 1, Yielded(<<>>), FALSE)
       /\ fuel' = fuel - 1

\* ------------------------------------------------------- consumers
\* Variant: the enumeration consumes the successors it yields.
Enumerate_draining(o) ==
  /\ last' = Result("_outgoing", o, None, Outgoing(o, heap[o]),
                    last.op = "_outgoing" /\ last.self = o)
  /\ heap' = [heap EXCEPT ![o] =
                IF HasAttr(@, "_activate_next") THEN [@ EXCEPT !._activate_next = <<>>] ELSE @]
  /\ UNCHANGED <<calls, fuel>>

\* list(o._outgoing()): the edges the generator yields and the exception that ends it.
Enumerate(o) ==
  /\ last' = Result("_outgoing", o, None, Outgoing(o, heap[o]),
                    last.op = "_outgoing" /\ last.self = o)
  /\ UNCHANGED <<heap, calls, fuel>>

\* The edges into o, as an indexer scanning objects 1..k finds them.
RECURSIVE BackLinks(_, _)
BackLinks(k, o) ==
  IF k = 0 THEN <<>>
  ELSE BackLinks(k - 1, o) \o SelectSeq(Outgoing(k, heap[k]).edges, LAMBDA e : e.dst = o)

\* An indexer's assignment o._incoming = edges.
AttachIncoming(o, edges) ==
  /\ fuel > 0
  /\ heap' = [heap EXCEPT ![o]._incoming = ListVal(edges)]
  /\ last' = Result("attach", o, None, Yielded(<<>>), FALSE)
  /\ fuel' = fuel - 1
  /\ UNCHANGED calls

\* _Node._incoming, the method: iter(self._incoming).
Node_incoming(d) ==
  IF d._incoming.tag = "list" THEN Yielded(d._incoming.items) ELSE Raised("TypeError")

\* o._incoming(): the instance dictionary is searched before the class, and
\* neither None nor a list can be called.
Incoming(d) ==
  IF HasAttr(d, "_incoming") THEN Raised("TypeError") ELSE Node_incoming(d)

CallIncoming(o) ==
  /\ last' = Result("_incoming", o, None, Incoming(heap[o]), FALSE)
  /\ UNCHANGED <<heap, calls, fuel>>

Indexer ==
  \/ \E o \in Objs : AttachIncoming(o, BackLinks(Cardinality(Objs), o))
  \/ \E o \in Objs : AttachIncoming(o, <<>>)

Builder ==
  \/ \E o \in Objs, node \in Objs : Activate(o, node)
  \/ \E o \in Objs, node \in Objs : Timer_Next(o, node)
  \/ \E o \in Objs, node \in Objs : Mailbox_Next(o, node)
  \/ \E o \in Objs, node \in Objs : View_Next(o, node)
  \/ \E o \in Objs, node \in Objs : Job_Next(o, node)
  \/ \E o \in Objs, node \in Objs : Join_Next(o, node)
  \/ \E o \in Objs, node \in Objs : OnTrue(o, node)
  \/ \E o \in Objs, node \in Objs : OnFalse(o, node)
  \/ \E o \in Objs, node \in Objs, cond \in Conds : Split_Next(o, node, cond)
  \/ \E o \in Objs, node \in Objs : Always(o, node)
  \/ \E o \in Objs, node \in Objs : Of(o, node)
  \/ \E o \in Objs, role \in Roles : Role(o, role)

Next ==
  \/ Builder
  \/ Construct("Switch")
  \/ \E o \in Objs : Enumerate(o)

Spec == Init /\ [][Next]_vars

\* The incoming side: wiring, an indexer's back-links, and their enumeration.
NextIncoming ==
  \/ Builder
  \/ Indexer
  \/ \E o \in Objs : CallIncoming(o)

SpecIncoming == Init /\ [][NextIncoming]_vars

\* ------------------------------------------------------- the approval scenario
\* start.Activate(approve); approve.Next(if); if.OnTrue(end).OnFalse(revise);
\* revise.Next(start), with start = 1, approve = 2, if = 3, end = 4, revise = 5.
ScenarioCall(o, op, node) == [self |-> o, op |-> op, node |-> node]
ScenarioScript ==
  << ScenarioCall(1, "Activate", 2), ScenarioCall(2, "Next", 3), ScenarioCall(3, "OnTrue", 4),
     ScenarioCall(3, "OnFalse", 5), ScenarioCall(5, "Next", 1) >>

InitScenario ==
  /\ heap = (1 :> Start_init) @@ (2 :> View_init) @@ (3 :> If_init) @@ (4 :> End_init)
              @@ (5 :> View_init)
  /\ calls = [o \in ScenarioIds |-> <<>>]
  /\ last = NoCall
  /\ fuel = Len(ScenarioScript)

\* The script's calls, in any order and any number of times, and enumerations.
NextScenario ==
  \/ \E i \in DOMAIN ScenarioScript :
       LET c == ScenarioScript[i] IN
         \/ c.op = "Activate" /\ Activate(c.self, c.node)
         \/ c.op = "Next" /\ View_Next(c.self, c.node)
         \/ c.op = "OnTrue" /\ OnTrue(c.self, c.node)
         \/ c.op = "OnFalse" /\ OnFalse(c.self, c.node)
  \/ \E o \in Objs : Enumerate(o)

SpecScenario == InitScenario /\ [][NextScenario]_vars

\* ------------------------------------------------------- what the claims speak of
Enum(o) == Outgoing(o, heap[o])
Cls(o) == heap[o].cls
EnumeratedNow(o) == last.op = "_outgoing" /\ last.self = o
NextClasses == {"Start", "Timer", "Mailbox", "View", "Job", "Join"}

\* One 'next' edge per logged call, in call order.
NextEdgesOf(o) == [i \in 1..Len(calls[o]) |-> Edge(o, calls[o][i].node, "next")]

\* The argument of the last call of method op in log, None if there is none.
LastArg(log, op) ==
  LET at == {i \in 1..Len(log) : log[i].op = op}
  IN IF at = {} THEN None ELSE log[CHOOSE i \in at : \A j \in at : j <= i].node

\* One edge per logged call, 'cond_true' exactly where a condition was supplied.
CondEdgesOf(o) ==
  [i \in 1..Len(calls[o]) |->
     Edge(o, calls[o][i].node, IF calls[o][i].cond # "None" THEN "cond_true" ELSE "default")]

\* C1: a Start, Timer, Mailbox, View, Job or Join yields one 'next' edge per
\* successor-adding call, the i-th to the i-th call's argument.
C1_NextEdgesInCallOrder ==
  \A o \in Objs : Cls(o) \in NextClasses =>
    /\ Enum(o) = Yielded(NextEdgesOf(o))
    /\ EnumeratedNow(o) => last.out = Yielded(NextEdgesOf(o))

C1_Witness ==
  \E o \in Objs :
    /\ Cls(o) \in NextClasses /\ EnumeratedNow(o)
    /\ Len(calls[o]) = 3
    /\ calls[o][1].node # calls[o][2].node /\ calls[o][1].node = calls[o][3].node

\* C2: an If always yields two edges, 'cond_true' to the last OnTrue argument and
\* then 'cond_false' to the last OnFalse argument (None where there was no call).
C2_IfTwoEdges ==
  \A o \in Objs : Cls(o) = "If" =>
    LET two == Yielded(<< Edge(o, LastArg(calls[o], "OnTrue"), "cond_true"),
                         Edge(o, LastArg(calls[o], "OnFalse"), "cond_false") >>)
    IN Enum(o) = two /\ (EnumeratedNow(o) => last.out = two)

C2_Witness ==
  \E o \in Objs :
    /\ Cls(o) = "If" /\ EnumeratedNow(o)
    /\ Len(calls[o]) = 3
    /\ calls[o][1].op = "OnFalse" /\ calls[o][2].op = "OnTrue" /\ calls[o][3].op = "OnTrue"
    /\ calls[o][2].node # calls[o][3].node /\ calls[o][1].node # calls[o][3].node

\* C3: a Split yields one edge per Next/Always call in call order, 'cond_true'
\* exactly where a non-null condition was supplied (falsy ones too), else 'default'.
C3_SplitEdgeClasses ==
  \A o \in Objs : Cls(o) = "Split" => Enum(o) = Yielded(CondEdgesOf(o))

\* C4: Switch() constructs a node, and its enumeration yields one edge per Case
\* or Default call in call order without raising.
C4_SwitchUsable ==
  /\ last.op = "Switch" => last.out.exc = NoneStr /\ last.value \in Objs
  /\ \A o \in Objs : Cls(o) = "Switch" => Enum(o) = Yielded(CondEdgesOf(o))

\* C5: a First yields, without raising, one 'next' edge per Of call in call order.
C5_FirstEdges ==
  \A o \in Objs : Cls(o) = "First" => Enum(o) = Yielded(NextEdgesOf(o))

\* C6: every edge a node yields has the node as its source; an End yields none.
C6_SourceIsSelf ==
  \A o \in Objs :
    /\ \A i \in DOMAIN Enum(o).edges : Enum(o).edges[i].src = o
    /\ EnumeratedNow(o) => \A i \in DOMAIN last.out.edges : last.out.edges[i].src = o
    /\ Cls(o) = "End" => Enum(o) = Yielded(<<>>)

C6_Witness ==
  \E o \in Objs :
    /\ EnumeratedNow(o) /\ Len(last.out.edges) >= 2
    /\ \E i \in DOMAIN last.out.edges : last.out.edges[i].dst # o

\* C7: an enumeration changes no object, and enumerating a node again with no
\* call in between gives the same edges (and the same exception, if any).
C7_EnumerationRepeatable ==
  [][last'.op = "_outgoing" =>
       /\ heap' = heap /\ calls' = calls
       /\ last'.repeat => last'.out = last.out]_vars

C7_Witness ==
  \E o \in Objs : EnumeratedNow(o) /\ last.repeat /\ Len(last.out.edges) >= 2

\* C8: once an indexer has attached edges to a node, the node's incoming-edge
\* enumeration yields exactly those edges.
C8_IncomingYieldsAttached ==
  \A o \in Objs :
    last.op = "_incoming" /\ last.self = o /\ heap[o]._incoming.tag = "list" =>
      last.out = Yielded(heap[o]._incoming.items)

\* C9: in the approval scenario the If yields two edges, its 'cond_true' edge
\* goes to End, Start -> approve -> If -> revise -> Start is a cycle, and the
\* nodes reachable from Start are exactly the five, End among them.
Succs(o) == {Enum(o).edges[i].dst : i \in DOMAIN Enum(o).edges} \ {None}
RECURSIVE ReachFrom(_)
ReachFrom(seen) ==
  LET more == seen \cup UNION {Succs(o) : o \in seen}
  IN IF more = seen THEN seen ELSE ReachFrom(more)

\* calls[o] is exactly the script's calls on o, in the script's order.
ScenarioBuilt ==
  \A o \in Objs :
    calls[o] = [i \in 1..Len(SelectSeq(ScenarioScript, LAMBDA c : c.self = o)) |->
                  Call(SelectSeq(ScenarioScript, LAMBDA c : c.self = o)[i].op,
                       SelectSeq(ScenarioScript, LAMBDA c : c.self = o)[i].node, "None")]

C9_ApprovalScenario ==
  ScenarioBuilt =>
    /\ Len(Enum(3).edges) = 2
    /\ Enum(3).edges[1].edge_class = "cond_true" /\ Enum(3).edges[1].dst = 4
    /\ 2 \in Succs(1) /\ 3 \in Succs(2) /\ 5 \in Succs(3) /\ 1 \in Succs(5)
    /\ ReachFrom({1}) = {1, 2, 3, 4, 5}
    /\ Cls(4) = "End"

C9_Witness == ScenarioBuilt /\ EnumeratedNow(3)

\* C10: a wiring call on n leaves n's class, role and name and every other
\* object as they were; Role(r) on n sets n's role to r, returns n, and leaves
\* n's outgoing edges and every other object as they were.
C10_LocalEffect ==
  [][/\ calls' # calls =>
          LET n == last'.self IN
            /\ heap'[n].cls = heap[n].cls
            /\ heap'[n]._role = heap[n]._role
            /\ heap'[n].name = heap[n].name
            /\ \A p \in Objs \ {n} :
                 heap'[p] = heap[p] /\ Outgoing(p, heap'[p]) = Outgoing(p, heap[p])
     /\ \A n \in Objs, r \in Roles : Role(n, r) =>
          /\ heap'[n]._role = r
          /\ last'.value = n
          /\ Outgoing(n, heap'[n]) = Outgoing(n, heap[n])
          /\ calls' = calls
          /\ \A p \in Objs \ {n} : heap'[p] = heap[p]]_vars

C10_Witness ==
  \E n \in Objs, p \in Objs :
    /\ n # p /\ last.op = "Role" /\ last.self = n /\ heap[n]._role \in Roles
    /\ Len(calls[n]) >= 1 /\ Len(calls[p]) >= 1 /\ calls[p][1].node = n
====
